---- MODULE Spec2Model ----
(***************************************************************************)
(* A model of the slogr logging facade: the Logger (construction, runtime  *)
(* mutators, leveled operations, level-prefix decoration), the context     *)
(* carrier and the level-name parser.                                      *)
(***************************************************************************)
EXTENDS Integers, Sequences, FiniteSets, TLC

VARIABLES
    opts,       \* the *Options object the caller holds on to (NIL when none)
    unset,      \* history: the Options fields the caller's literal left out
    logger,     \* the Logger under study
    bufs,       \* the content of every io.Writer, a sequence of written lines
    curOutput,  \* history: the io.Writer last handed to New or SetOutput
    stdPath,    \* history: built without CustomHandler and HandlerOptions, and
                \* mutated by SetLevel and SetOutput only
    calls,      \* the number of leveled calls made so far
    ctxs,       \* the context.Context values derived so far
    input,      \* the string handed to ParseLevel
    parsed,     \* what ParseLevel returned (NIL before the call)
    pc,         \* per goroutine, the shared access its call makes next
    regs,       \* per goroutine, the arguments and locals of its call
    hist        \* history: per goroutine, the calls that have returned

loggerVars == <<opts, unset, logger, bufs, curOutput, stdPath, calls>>
ctxVars == <<ctxs>>
parseVars == <<input, parsed>>
raceVars == <<pc, regs, hist>>

vars == <<loggerVars, ctxVars, parseVars, raceVars>>

----------------------------------------------------------------------------
(* Bounds *)

MaxCalls == 2
MaxContexts == 3
MaxCallsPerGoroutine == 1

----------------------------------------------------------------------------
(* Values of log/slog and of the package *)

NIL == [nil |-> TRUE]

LevelDebug == -4
LevelInfo == 0
LevelWarn == 4
LevelError == 8
LevelFatal == LevelError + 4

HandlerTypeJSON == 0
HandlerTypeText == 1

Thresholds == {LevelDebug, LevelInfo, LevelWarn, LevelError}
Severities == Thresholds \cup {LevelFatal}

Writers == {"stdout", "buf"}

OptionFields == {"Level", "AddLevelPrefix", "HandlerType", "CustomHandler", "HandlerOptions"}

\* slog.Level.String(): the name of the nearest named level at or below l,
\* followed by the signed offset from it when that is not zero.
LevelName(base, val) ==
    IF val = 0 THEN base
    ELSE IF val > 0 THEN base \o "+" \o ToString(val)
    ELSE base \o ToString(val)

LevelString(l) ==
    IF l < LevelInfo THEN LevelName("DEBUG", l - LevelDebug)
    ELSE IF l < LevelWarn THEN LevelName("INFO", l - LevelInfo)
    ELSE IF l < LevelError THEN LevelName("WARN", l - LevelWarn)
    ELSE LevelName("ERROR", l - LevelError)

\* A slog.Level held in a slog.Leveler interface value.
Leveler(l) == [level |-> l]

\* slog.HandlerOptions{Level: l}, l a Leveler or nil
HandlerOptions(l) == [Level |-> l, ReplaceAttr |-> NIL]

\* slog.NewTextHandler(w, o) and slog.NewJSONHandler(w, o): the handler keeps
\* a copy of the options it was built with.
NewTextHandler(w, o) == [type |-> "text", w |-> w, opts |-> o]
NewJSONHandler(w, o) == [type |-> "json", w |-> w, opts |-> o]

\* type levelPrefixHandler struct { slog.Handler }
levelPrefixHandler(h) == [type |-> "levelPrefix", Handler |-> h]

\* Enabled is promoted from the embedded handler; the built-in handlers
\* compare with their options' Level, INFO when that is nil.
RECURSIVE Enabled(_, _)
Enabled(h, level) ==
    IF h.type = "levelPrefix" THEN Enabled(h.Handler, level)
    ELSE level >= (IF h.opts.Level = NIL THEN LevelInfo ELSE h.opts.Level.level)

\* Handle: the prefix handler rewrites the message and forwards; a built-in
\* handler writes one encoded line to its writer.
RECURSIVE Handle(_, _, _)
Handle(h, r, b) ==
    IF h.type = "levelPrefix"
    THEN Handle(h.Handler,
                [r EXCEPT !.Message = <<"- ", LevelString(r.Level), " - ">> \o @], b)
    ELSE [b EXCEPT ![h.w] = Append(@, [enc |-> h.type,
                                        level |-> LevelString(r.Level),
                                        msg |-> r.Message,
                                        attrs |-> r.attrs])]

\* (*slog.Logger).Log: nothing when the handler is not enabled for the level,
\* otherwise one record handed to the handler.
SlogLog(h, level, msg, args, b) ==
    IF ~Enabled(h, level) THEN b
    ELSE Handle(h, [Level |-> level, Message |-> msg, attrs |-> args], b)

----------------------------------------------------------------------------
(* Options *)

DefaultOptions ==
    [Level |-> LevelInfo,
     AddLevelPrefix |-> FALSE,
     HandlerType |-> HandlerTypeText,
     CustomHandler |-> NIL,
     HandlerOptions |-> [Level |-> Leveler(LevelInfo), ReplaceAttr |-> [fn |-> "identity"]]]

\* The zero value of each field of Options, which a composite literal gives
\* to every field it leaves out.
ZeroOptions ==
    [Level |-> 0,
     AddLevelPrefix |-> FALSE,
     HandlerType |-> 0,
     CustomHandler |-> NIL,
     HandlerOptions |-> NIL]

\* &Options{...}: the literal gives the fields in given their value in val.
OptionsLiteral(given, val) ==
    [f \in OptionFields |-> IF f \in given THEN val[f] ELSE ZeroOptions[f]]

\* The custom handler of the tests: a text handler of its own on the buffer.
CustomHandlers == {NewTextHandler("buf", HandlerOptions(Leveler(LevelDebug)))}

\* The values the caller writes into a literal.
FieldValues ==
    [Level : {LevelDebug, LevelError},
     AddLevelPrefix : {TRUE},
     HandlerType : {HandlerTypeJSON, HandlerTypeText},
     CustomHandler : CustomHandlers,
     HandlerOptions : {HandlerOptions(NIL), HandlerOptions(Leveler(LevelError))}]

----------------------------------------------------------------------------
(* Logger *)

\* The handler New and SetHandler select for a handler type.
BaseHandler(handlerType, output, o) ==
    IF handlerType = HandlerTypeJSON THEN NewJSONHandler(output, o)
    ELSE NewTextHandler(output, o)

\* The Options New works on: the defaults when opts is nil, and
\* HandlerOptions filled in from Level when nil.
NewOptions(o) ==
    LET o1 == IF o = NIL THEN DefaultOptions ELSE o
    IN  IF o1.HandlerOptions = NIL
        THEN [o1 EXCEPT !.HandlerOptions = HandlerOptions(Leveler(o1.Level))]
        ELSE o1

NewLogger(output, o) ==
    LET o2 == NewOptions(o)
        base == IF o2.CustomHandler # NIL THEN o2.CustomHandler
                ELSE BaseHandler(o2.HandlerType, output, o2.HandlerOptions)
        handler == IF o2.AddLevelPrefix THEN levelPrefixHandler(base) ELSE base
    IN  [level |-> o2.Level,
         shouldPreficMessageWithLevel |-> o2.AddLevelPrefix,
         handlerType |-> o2.HandlerType,
         slogger |-> handler,
         writerType |-> output]

\* Logger.SetHandler: the new value of the Logger.
SetHandler(l, output, handlerType, o) ==
    LET o1 == IF o = NIL THEN HandlerOptions(Leveler(l.level)) ELSE o
        base == BaseHandler(handlerType, output, o1)
        handler == IF l.shouldPreficMessageWithLevel
                   THEN levelPrefixHandler(base) ELSE base
    IN  [l EXCEPT !.slogger = handler]

GetLevel(l) == l.level

GetHandlerType(l) == l.handlerType

\* fmt.Sprintf over a format of literal pieces and "%d" verbs.
RECURSIVE Sprintf(_, _)
Sprintf(format, args) ==
    IF format = << >>
    THEN (IF args = << >> THEN << >> ELSE <<"%!(EXTRA)">>)
    ELSE IF Head(format) = "%d"
         THEN (IF args = << >>
               THEN <<"%!d(MISSING)">> \o Sprintf(Tail(format), args)
               ELSE <<Head(args)>> \o Sprintf(Tail(format), Tail(args)))
         ELSE <<Head(format)>> \o Sprintf(Tail(format), args)

----------------------------------------------------------------------------
(* The operations of the Logger, on a Logger that New has built *)

\* What callers hand to New: nil, DefaultOptions() or a literal.
OptionInputs ==
    {NIL, DefaultOptions}
        \cup {OptionsLiteral(given, val) : given \in SUBSET OptionFields, val \in FieldValues}

Procs == {1, 2}

\* No goroutine is inside a call: the calls are made one after the other.
Sequential ==
    /\ pc = [p \in Procs |-> "idle"]
    /\ regs = [p \in Procs |-> NIL]
    /\ hist = [p \in Procs |-> << >>]

\* Options that supply neither a CustomHandler nor HandlerOptions.
PlainOptions(o) == o = NIL \/ (o.CustomHandler = NIL /\ o.HandlerOptions = NIL)

Init ==
    /\ opts = NIL
    /\ unset = OptionFields
    /\ \E output \in Writers, o \in OptionInputs :
           /\ logger = NewLogger(output, o)
           /\ curOutput = output
           /\ stdPath = PlainOptions(o)
    /\ bufs = [w \in Writers |-> << >>]
    /\ calls = 0
    /\ ctxs = << >>
    /\ input = << >>
    /\ parsed = NIL
    /\ Sequential

SetOutput(output) ==
    /\ logger' = SetHandler(logger, output, logger.handlerType,
                            HandlerOptions(Leveler(logger.level)))
    /\ curOutput' = output
    /\ UNCHANGED <<opts, unset, bufs, stdPath, calls, ctxVars, parseVars, raceVars>>

SetLevel(level) ==
    /\ logger' = SetHandler([logger EXCEPT !.level = level], logger.writerType,
                            logger.handlerType, HandlerOptions(Leveler(level)))
    /\ UNCHANGED <<opts, unset, bufs, curOutput, stdPath, calls, ctxVars, parseVars, raceVars>>

SetCustomHandler(handler) ==
    /\ logger' = [logger EXCEPT !.slogger =
                     IF logger.shouldPreficMessageWithLevel
                     THEN levelPrefixHandler(handler) ELSE handler]
    /\ stdPath' = FALSE
    /\ UNCHANGED <<opts, unset, bufs, curOutput, calls, ctxVars, parseVars, raceVars>>

\* Log as it would be if it handed the record to the formatter twice.
Log_Twice(level, msg, args) ==
    /\ calls < MaxCalls
    /\ calls' = calls + 1
    /\ bufs' = SlogLog(logger.slogger, level, msg, args,
                       SlogLog(logger.slogger, level, msg, args, bufs))
    /\ UNCHANGED <<opts, unset, logger, curOutput, stdPath, ctxVars, parseVars, raceVars>>

\* Logger.Log, and through it Debug, Info, Warn, Error and Fatal.
Log(level, msg, args) ==
    /\ calls < MaxCalls
    /\ calls' = calls + 1
    /\ bufs' = SlogLog(logger.slogger, level, msg, args, bufs)
    /\ UNCHANGED <<opts, unset, logger, curOutput, stdPath, ctxVars, parseVars, raceVars>>

\* Logger.Logf, and through it Debugf, Infof, Warnf, Errorf and Fatalf.
Logf(level, format, args) ==
    /\ calls < MaxCalls
    /\ calls' = calls + 1
    /\ bufs' = SlogLog(logger.slogger, level, Sprintf(format, args), << >>, bufs)
    /\ UNCHANGED <<opts, unset, logger, curOutput, stdPath, ctxVars, parseVars, raceVars>>

\* The arguments of the leveled calls.
Messages == {<<"msg">>}
AttrArgs == {<<"k", "v">>}
Formats == {<<"n=", "%d">>}
FormatArgs == {<<"1">>}

Next ==
    \/ \E output \in Writers : SetOutput(output)
    \/ \E level \in Thresholds : SetLevel(level)
    \/ \E handler \in CustomHandlers : SetCustomHandler(handler)
    \/ \E level \in Severities, msg \in Messages, args \in AttrArgs : Log(level, msg, args)
    \/ \E level \in Severities, format \in Formats, args \in FormatArgs :
           Logf(level, format, args)

Spec == Init /\ [][Next]_vars

----------------------------------------------------------------------------
(* Construction: the caller's steps on its Options object, and New. The    *)
(* Logger at the start is the package's defaultLogger.                     *)

\* var defaultLogger = New(os.Stdout, DefaultOptions())
DefaultLogger ==
    /\ opts = NIL
    /\ unset = OptionFields
    /\ logger = NewLogger("stdout", DefaultOptions)
    /\ curOutput = "stdout"
    /\ stdPath = FALSE
    /\ bufs = [w \in Writers |-> << >>]
    /\ calls = 0

InitNew ==
    /\ DefaultLogger
    /\ ctxs = << >>
    /\ input = << >>
    /\ parsed = NIL
    /\ Sequential

\* opts := &Options{...}
MakeOptions(given, val) ==
    /\ opts' = OptionsLiteral(given, val)
    /\ unset' = OptionFields \ given
    /\ UNCHANGED <<logger, bufs, curOutput, stdPath, calls, ctxVars, parseVars, raceVars>>

\* opts = nil
DropOptions ==
    /\ opts # NIL
    /\ opts' = NIL
    /\ unset' = OptionFields
    /\ UNCHANGED <<logger, bufs, curOutput, stdPath, calls, ctxVars, parseVars, raceVars>>

\* opts.Level = level
SetOptionsLevel(level) ==
    /\ opts # NIL
    /\ opts' = [opts EXCEPT !.Level = level]
    /\ unset' = unset \ {"Level"}
    /\ UNCHANGED <<logger, bufs, curOutput, stdPath, calls, ctxVars, parseVars, raceVars>>

\* logger = New(output, opts): New fills in the HandlerOptions of the
\* caller's object when they are nil.
New(output) ==
    /\ logger' = NewLogger(output, opts)
    /\ opts' = IF opts = NIL THEN NIL ELSE NewOptions(opts)
    /\ curOutput' = output
    /\ stdPath' = PlainOptions(opts)
    /\ UNCHANGED <<unset, bufs, calls, ctxVars, parseVars, raceVars>>

NextNew ==
    \/ \E given \in SUBSET OptionFields, val \in FieldValues : MakeOptions(given, val)
    \/ DropOptions
    \/ \E level \in Thresholds : SetOptionsLevel(level)
    \/ \E output \in Writers : New(output)

SpecNew == InitNew /\ [][NextNew]_vars

----------------------------------------------------------------------------
(* The context carrier. A context is 0, context.Background(), or the index *)
(* of a node of ctxs; a node holds its parent, one key and one value, and  *)
(* which function derived it.                                              *)

\* const LoggerKey ContextKey = "slogr_logger"
LoggerKey == [type |-> "ContextKey", name |-> "slogr_logger"]

\* The keys callers hand to context.WithValue: a plain string, a key of a
\* type of their own, and keys of the exported type ContextKey, among them
\* slogr.LoggerKey itself.
CallerKeys ==
    {[type |-> "string", name |-> "slogr_logger"],
     [type |-> "callerKey", name |-> "slogr_logger"],
     [type |-> "ContextKey", name |-> "request_id"],
     [type |-> "ContextKey", name |-> "slogr_logger"]}

\* The *Logger values handed to WithLogger, the nil pointer among them.
LoggerRefs == {"L1", "L2", "nil"}

LoggerValue(ref) == [type |-> "*Logger", ref |-> ref]

\* The values callers hand to context.WithValue.
CallerValues == {[type |-> "string", val |-> "x"], LoggerValue("L2")}

\* ctx.Value(key): the value of the nearest node holding key, nil when none.
RECURSIVE Value(_, _, _)
Value(cs, c, key) ==
    IF c = 0 THEN NIL
    ELSE IF cs[c].key = key THEN cs[c].val
    ELSE Value(cs, cs[c].parent, key)

\* FromContext: the value under LoggerKey when it is a *Logger, else nil.
FromContext(cs, c) ==
    LET v == Value(cs, c, LoggerKey)
    IN  IF v # NIL /\ v.type = "*Logger" THEN v.ref ELSE "nil"

InitCtx ==
    /\ DefaultLogger
    /\ ctxs = << >>
    /\ input = << >>
    /\ parsed = NIL
    /\ Sequential

\* context.WithValue(parent, key, val), as context derives a node.
Derive(parent, key, val, by) ==
    /\ Len(ctxs) < MaxContexts
    /\ ctxs' = Append(ctxs, [parent |-> parent, key |-> key, val |-> val, by |-> by])
    /\ UNCHANGED <<loggerVars, parseVars, raceVars>>

WithLogger(parent, ref) == Derive(parent, LoggerKey, LoggerValue(ref), "WithLogger")

\* The caller's own context.WithValue(parent, key, val).
WithValue(parent, key, val) == Derive(parent, key, val, "WithValue")

NextCtx ==
    \/ \E parent \in 0..Len(ctxs), ref \in LoggerRefs : WithLogger(parent, ref)
    \/ \E parent \in 0..Len(ctxs), key \in CallerKeys, val \in CallerValues :
           WithValue(parent, key, val)

SpecCtx == InitCtx /\ [][NextCtx]_vars

----------------------------------------------------------------------------
(* The level-name parser. A string is a sequence of characters.            *)

Lower == [D |-> "d", E |-> "e", B |-> "b", U |-> "u", G |-> "g", I |-> "i",
          N |-> "n", F |-> "f", O |-> "o", W |-> "w", A |-> "a", R |-> "r",
          T |-> "t", L |-> "l"]

Letters == DOMAIN Lower

\* U+0131, the dotless i, whose upper case is "I".
DotlessI == "U+0131"

\* unicode.ToUpper on one character.
ToUpperChar(c) ==
    IF \E u \in Letters : Lower[u] = c THEN CHOOSE u \in Letters : Lower[u] = c
    ELSE IF c = DotlessI THEN "I"
    ELSE c

\* strings.ToUpper
ToUpper(str) == [i \in 1..Len(str) |-> ToUpperChar(str[i])]

\* ParseLevel as it would be without strings.ToUpper.
ParseLevel_CaseSensitive(str) ==
    CASE str = <<"I", "N", "F", "O">> -> LevelInfo
      [] str = <<"W", "A", "R", "N">> -> LevelWarn
      [] str = <<"E", "R", "R", "O", "R">> -> LevelError
      [] str = <<"D", "E", "B", "U", "G">> -> LevelDebug
      [] OTHER -> LevelInfo

ParseLevel(str) ==
    LET u == ToUpper(str)
    IN  CASE u = <<"I", "N", "F", "O">> -> LevelInfo
          [] u = <<"W", "A", "R", "N">> -> LevelWarn
          [] u = <<"E", "R", "R", "O", "R">> -> LevelError
          [] u = <<"D", "E", "B", "U", "G">> -> LevelDebug
          [] OTHER -> LevelInfo

\* The strings that differ from name in the case of their letters only.
CaseVariants(name) ==
    {[i \in 1..Len(name) |-> IF i \in low THEN Lower[name[i]] ELSE name[i]] :
        low \in SUBSET (1..Len(name))}

LevelNames ==
    {<<"D", "E", "B", "U", "G">>, <<"I", "N", "F", "O">>,
     <<"W", "A", "R", "N">>, <<"E", "R", "R", "O", "R">>}

\* The strings handed to ParseLevel: the level names and "FATAL" in every
\* case, the empty string, and strings that are no level name.
ParseInputs ==
    UNION {CaseVariants(name) : name \in LevelNames \cup {<<"F", "A", "T", "A", "L">>}}
        \cup {<< >>, <<"b", "o", "g", "u", "s">>, <<"I", "N", "F">>,
              <<"I", "N", "F", "O", "S">>, <<"W", "A", "R", "N", "I", "N", "G">>,
              <<" ", "I", "N", "F", "O">>, <<"e", "r", "r", "o", "r", " ">>,
              <<"E", "R", "R">>, <<"0">>, <<DotlessI, "n", "f", "o">>,
              <<"d", "e", "b", "u", "g", "g">>}

InitParse ==
    /\ DefaultLogger
    /\ ctxs = << >>
    /\ input \in ParseInputs
    /\ parsed = NIL
    /\ Sequential

\* level := ParseLevel(input)
Parse ==
    /\ parsed = NIL
    /\ parsed' = Leveler(ParseLevel(input))
    /\ UNCHANGED <<loggerVars, ctxVars, input, raceVars>>

NextParse == Parse

SpecParse == InitParse /\ [][NextParse]_vars

----------------------------------------------------------------------------
(* Two goroutines on one Logger. The Logger holds no lock, so a call is    *)
(* the sequence of its accesses to the Logger's fields, and the accesses   *)
(* of the two goroutines interleave freely.                                *)

RaceCalls ==
    {[op |-> "SetLevel", level |-> level] : level \in Thresholds}
        \cup {[op |-> "SetOutput", output |-> output] : output \in Writers}
        \cup {[op |-> "SetCustomHandler", handler |-> handler] : handler \in CustomHandlers}
        \cup {[op |-> "Log", level |-> level] : level \in Severities}

\* The first access of a call to the Logger's fields.
FirstAccess(call) ==
    CASE call.op = "SetLevel" -> "SetLevel_level"
      [] call.op = "SetOutput" -> "SetOutput_level"
      [] call.op = "SetCustomHandler" -> "SetCustomHandler_slogger"
      [] call.op = "Log" -> "Log_slogger"

InitRace ==
    /\ opts = NIL
    /\ unset = OptionFields
    /\ logger = NewLogger("stdout", NIL)
    /\ curOutput = "stdout"
    /\ stdPath = TRUE
    /\ bufs = [w \in Writers |-> << >>]
    /\ calls = 0
    /\ ctxs = << >>
    /\ input = << >>
    /\ parsed = NIL
    /\ Sequential

\* Goroutine p enters a call.
Call(p, call) ==
    /\ pc[p] = "idle"
    /\ Len(hist[p]) < MaxCallsPerGoroutine
    /\ pc' = [pc EXCEPT ![p] = FirstAccess(call)]
    /\ regs' = [regs EXCEPT ![p] = [call |-> call]]
    /\ UNCHANGED <<loggerVars, ctxVars, parseVars, hist>>

\* Goroutine p returns from its call.
Return(p) ==
    /\ pc' = [pc EXCEPT ![p] = "idle"]
    /\ regs' = [regs EXCEPT ![p] = NIL]
    /\ hist' = [hist EXCEPT ![p] = Append(@, regs[p].call)]

\* SetLevel: logger.level = level
SetLevelWriteLevel(p) ==
    /\ pc[p] = "SetLevel_level"
    /\ logger' = [logger EXCEPT !.level = regs[p].call.level]
    /\ pc' = [pc EXCEPT ![p] = "SetLevel_slogger"]
    /\ UNCHANGED <<opts, unset, bufs, curOutput, stdPath, calls, ctxVars, parseVars,
                   regs, hist>>

\* SetLevel: logger.SetHandler(logger.writerType, logger.handlerType, ...)
SetLevelWriteSlogger(p) ==
    /\ pc[p] = "SetLevel_slogger"
    /\ logger' = SetHandler(logger, logger.writerType, logger.handlerType,
                            HandlerOptions(Leveler(regs[p].call.level)))
    /\ Return(p)
    /\ UNCHANGED <<opts, unset, bufs, curOutput, stdPath, calls, ctxVars, parseVars>>

\* SetOutput as it would be if it waited for a lock that a goroutine holds
\* for the length of its call.
SetOutputReadLevel_Locked(p) ==
    /\ pc[p] = "SetOutput_level"
    /\ \A q \in Procs \ {p} : pc[q] = "idle"
    /\ regs' = [regs EXCEPT ![p] = [call |-> regs[p].call, level |-> logger.level]]
    /\ pc' = [pc EXCEPT ![p] = "SetOutput_slogger"]
    /\ UNCHANGED <<loggerVars, ctxVars, parseVars, hist>>

\* SetOutput: the arguments logger.handlerType and Level: logger.level
SetOutputReadLevel(p) ==
    /\ pc[p] = "SetOutput_level"
    /\ regs' = [regs EXCEPT ![p] = [call |-> regs[p].call, level |-> logger.level]]
    /\ pc' = [pc EXCEPT ![p] = "SetOutput_slogger"]
    /\ UNCHANGED <<loggerVars, ctxVars, parseVars, hist>>

\* SetOutput: logger.SetHandler(output, ...)
SetOutputWriteSlogger(p) ==
    /\ pc[p] = "SetOutput_slogger"
    /\ logger' = SetHandler(logger, regs[p].call.output, logger.handlerType,
                            HandlerOptions(Leveler(regs[p].level)))
    /\ curOutput' = regs[p].call.output
    /\ Return(p)
    /\ UNCHANGED <<opts, unset, bufs, stdPath, calls, ctxVars, parseVars>>

\* SetCustomHandler: logger.slogger = slog.New(handler)
SetCustomHandlerWriteSlogger(p) ==
    /\ pc[p] = "SetCustomHandler_slogger"
    /\ logger' = [logger EXCEPT !.slogger =
                     IF logger.shouldPreficMessageWithLevel
                     THEN levelPrefixHandler(regs[p].call.handler)
                     ELSE regs[p].call.handler]
    /\ stdPath' = FALSE
    /\ Return(p)
    /\ UNCHANGED <<opts, unset, bufs, curOutput, calls, ctxVars, parseVars>>

\* Log: the receiver logger.slogger of the call
LogReadSlogger(p) ==
    /\ pc[p] = "Log_slogger"
    /\ regs' = [regs EXCEPT ![p] = [call |-> regs[p].call, slogger |-> logger.slogger]]
    /\ pc' = [pc EXCEPT ![p] = "Log_handle"]
    /\ UNCHANGED <<loggerVars, ctxVars, parseVars, hist>>

\* Log: slogger.Log(ctx, level, msg, args...)
LogHandle(p) ==
    /\ pc[p] = "Log_handle"
    /\ bufs' = SlogLog(regs[p].slogger, regs[p].call.level, <<"msg">>, <<"k", "v">>, bufs)
    /\ Return(p)
    /\ UNCHANGED <<opts, unset, logger, curOutput, stdPath, calls, ctxVars, parseVars>>

\* The accesses of goroutine p to the Logger.
Step(p) ==
    \/ SetLevelWriteLevel(p)
    \/ SetLevelWriteSlogger(p)
    \/ SetOutputReadLevel(p)
    \/ SetOutputWriteSlogger(p)
    \/ SetCustomHandlerWriteSlogger(p)
    \/ LogReadSlogger(p)
    \/ LogHandle(p)

NextRace ==
    \/ \E p \in Procs, call \in RaceCalls : Call(p, call)
    \/ \E p \in Procs : SetLevelWriteLevel(p)
    \/ \E p \in Procs : SetLevelWriteSlogger(p)
    \/ \E p \in Procs : SetOutputReadLevel(p)
    \/ \E p \in Procs : SetOutputWriteSlogger(p)
    \/ \E p \in Procs : SetCustomHandlerWriteSlogger(p)
    \/ \E p \in Procs : LogReadSlogger(p)
    \/ \E p \in Procs : LogHandle(p)

SpecRace == InitRace /\ [][NextRace]_vars

----------------------------------------------------------------------------
(* Observations of a handler: what one call at a level writes, starting    *)
(* from empty writers.                                                     *)

Empty == [w \in Writers |-> << >>]

Emit(h, level) == SlogLog(h, level, <<"probe">>, << >>, Empty)

\* The writer the handler writes to, the encoding of its lines, whether it
\* decorates the message, and the levels it lets through.
Dest(h) == CHOOSE w \in Writers : Emit(h, LevelFatal)[w] # << >>
Encoding(h) == Emit(h, LevelFatal)[Dest(h)][1].enc
Decorated(h) == Emit(h, LevelFatal)[Dest(h)][1].msg # <<"probe">>
Emitted(h) == {level \in Severities : Emit(h, level) # Empty}

\* The active formatter writes to the current destination in the encoding of
\* the Logger's handler type, decorated as the Logger's flag says.
FacadeBuilt(l) ==
    /\ Dest(l.slogger) = curOutput
    /\ Encoding(l.slogger) = (IF l.handlerType = HandlerTypeJSON THEN "json" ELSE "text")
    /\ Decorated(l.slogger) = l.shouldPreficMessageWithLevel

\* A leveled call at a level, in either form.
LogCall(level) ==
    \/ \E msg \in Messages, args \in AttrArgs : Log(level, msg, args)
    \/ \E format \in Formats, args \in FormatArgs : Logf(level, format, args)

\* Exactly one line was appended to writer w and no other writer changed.
OneLineTo(w) ==
    /\ Len(bufs'[w]) = Len(bufs[w]) + 1
    /\ SubSeq(bufs'[w], 1, Len(bufs[w])) = bufs[w]
    /\ \A v \in Writers \ {w} : bufs'[v] = bufs[v]

----------------------------------------------------------------------------
(* Claims *)

\* C1: on a Logger built by New and mutated by SetLevel and SetOutput only,
\* a leveled call at severity S writes exactly one record to the current
\* destination when S is at or above the configured threshold, and writes
\* nothing when S is below it.
C1_ThresholdFiltering ==
    [][stdPath =>
          \A level \in Severities :
              LogCall(level) =>
                  IF level >= GetLevel(logger)
                  THEN OneLineTo(curOutput)
                  ELSE bufs' = bufs]_vars

\* C2: SetLevel changes only the threshold: the destination (also one that
\* SetOutput installed), the encoding and the decoration of the active
\* formatter are what they were before the call.
C2_SetLevelKeepsDestination ==
    [][stdPath =>
          \A level \in Thresholds :
              SetLevel(level) =>
                  /\ Dest(logger'.slogger) = Dest(logger.slogger)
                  /\ Encoding(logger'.slogger) = Encoding(logger.slogger)
                  /\ Decorated(logger'.slogger) = Decorated(logger.slogger)]_vars

\* C3: SetOutput(B) leaves every writer's content as it was and makes B the
\* destination of the following calls, and the threshold, encoding and
\* decoration in effect before the call still apply afterwards.
C3_SetOutputRedirects ==
    [][/\ \A output \in Writers :
              (SetOutput(output) /\ FacadeBuilt(logger)) =>
                  /\ bufs' = bufs
                  /\ Dest(logger'.slogger) = output
                  /\ Emitted(logger'.slogger) = Emitted(logger.slogger)
                  /\ Encoding(logger'.slogger) = Encoding(logger.slogger)
                  /\ Decorated(logger'.slogger) = Decorated(logger.slogger)
       /\ \A level \in Severities :
              LogCall(level) =>
                  \/ bufs' = bufs
                  \/ OneLineTo(Dest(logger.slogger))]_vars

\* The severity names of the specification.
SeverityName(level) ==
    CASE level = LevelDebug -> "DEBUG"
      [] level = LevelInfo -> "INFO"
      [] level = LevelWarn -> "WARN"
      [] level = LevelError -> "ERROR"
      [] level = LevelFatal -> "FATAL"

\* The line a call has just appended to writer w.
NewLine(w) == bufs'[w][Len(bufs'[w])]

\* The line written carries the attributes unchanged and the message msg,
\* behind "- <severity name> - " exactly once when the Logger decorates.
DecoratedAs(level, msg, args) ==
    bufs' # bufs =>
        LET line == NewLine(Dest(logger.slogger))
        IN  /\ line.attrs = args
            /\ line.msg = IF logger.shouldPreficMessageWithLevel
                          THEN <<"- ", SeverityName(level), " - ">> \o msg
                          ELSE msg

\* C4: with prefix decoration enabled every emitted message is
\* "- " + severity name + " - " + original message, once, for DEBUG, INFO,
\* WARN, ERROR and FATAL, also after SetOutput, SetLevel, SetCustomHandler;
\* without decoration the message is unchanged; attributes are never altered.
C4_PrefixDecoration ==
    [][\A level \in Severities :
          /\ \A msg \in Messages, args \in AttrArgs :
                 Log(level, msg, args) => DecoratedAs(level, msg, args)
          /\ \A format \in Formats, args \in FormatArgs :
                 Logf(level, format, args) =>
                     DecoratedAs(level, Sprintf(format, args), << >>)]_vars

\* C8: New with nil options gives threshold INFO and the text encoding, and
\* every field a supplied Options leaves unset resolves to the same default:
\* no handler type set gives GetHandlerType() = text and text output, no
\* level set gives threshold INFO.
C8_Defaults ==
    [][\A output \in Writers :
          New(output) =>
              /\ ("Level" \in unset) => GetLevel(logger') = DefaultOptions.Level
              /\ ("HandlerType" \in unset) =>
                     GetHandlerType(logger') = DefaultOptions.HandlerType
              /\ ("HandlerType" \in unset /\ "CustomHandler" \in unset) =>
                     Encoding(logger'.slogger) = "text"
              /\ ("AddLevelPrefix" \in unset) =>
                     logger'.shouldPreficMessageWithLevel = DefaultOptions.AddLevelPrefix]_vars

\* C9: a leveled call changes nothing but the writers, to which it appends
\* at most one line; Fatal is written whenever ERROR would be, under a level
\* beyond ERROR, and the Logger goes on accepting calls.
C9_LeveledCallsOnlyWrite ==
    [][\A level \in Severities :
          LogCall(level) =>
              /\ logger' = logger
              /\ opts' = opts
              /\ curOutput' = curOutput
              /\ bufs' = bufs \/ \E w \in Writers : OneLineTo(w)
              /\ (level = LevelFatal /\ LevelError \in Emitted(logger.slogger)) =>
                     /\ bufs' # bufs
                     /\ NewLine(Dest(logger.slogger)).level
                            \notin {"DEBUG", "INFO", "WARN", "ERROR"}]_vars

\* A call at Fatal wrote a line and a later call wrote the next one.
C9_Witness ==
    \E w \in Writers :
        /\ Len(bufs[w]) = 2
        /\ bufs[w][1].level = LevelString(LevelFatal)
        /\ calls = 2

\* The context c has a WithLogger node on its chain: the nearest one, else 0.
RECURSIVE NearestWithLogger(_, _)
NearestWithLogger(cs, c) ==
    IF c = 0 THEN 0
    ELSE IF cs[c].by = "WithLogger" THEN c
    ELSE NearestWithLogger(cs, cs[c].parent)

Contexts == 0..Len(ctxs)

\* C5: FromContext returns the reference given to the nearest WithLogger on
\* the context's chain of derivations, nil when the chain has none, and a
\* derivation never changes what FromContext returns for an existing context.
C5_ContextLookup ==
    /\ [](\A c \in Contexts :
             FromContext(ctxs, c) =
                 IF NearestWithLogger(ctxs, c) = 0 THEN "nil"
                 ELSE ctxs[NearestWithLogger(ctxs, c)].val.ref)
    /\ [][\A c \in Contexts : FromContext(ctxs', c) = FromContext(ctxs, c)]_vars

\* C6: no key a caller supplies replaces or hides the association: on a
\* context derived from WithLogger(ctx, L) by the caller's key/value pairs
\* only, FromContext returns L.
C6_PrivateKey ==
    \A a \in 1..Len(ctxs), c \in 1..Len(ctxs) :
        (/\ ctxs[a].by = "WithLogger"
         /\ ctxs[a].val.ref # "nil"
         /\ NearestWithLogger(ctxs, c) = a) =>
            FromContext(ctxs, c) = ctxs[a].val.ref

\* str differs from name in the case of its letters only.
IsCaseVariant(str, name) ==
    /\ Len(str) = Len(name)
    /\ \A i \in 1..Len(name) : str[i] = name[i] \/ str[i] = Lower[name[i]]

\* C7: ParseLevel maps every case variant of DEBUG, INFO, WARN and ERROR to
\* that severity and every other string to INFO, and always returns one of
\* the four.
C7_ParseLevelTotal ==
    parsed # NIL =>
        /\ parsed.level \in {LevelDebug, LevelInfo, LevelWarn, LevelError}
        /\ IsCaseVariant(input, <<"D", "E", "B", "U", "G">>) => parsed.level = LevelDebug
        /\ IsCaseVariant(input, <<"I", "N", "F", "O">>) => parsed.level = LevelInfo
        /\ IsCaseVariant(input, <<"W", "A", "R", "N">>) => parsed.level = LevelWarn
        /\ IsCaseVariant(input, <<"E", "R", "R", "O", "R">>) => parsed.level = LevelError
        /\ (\A name \in LevelNames : ~IsCaseVariant(input, name)) => parsed.level = LevelInfo

\* ParseLevel has returned ERROR for a spelling in mixed case.
C7_Witness ==
    /\ parsed = Leveler(LevelError)
    /\ input = <<"E", "r", "R", "o", "r">>

\* The field of the Logger a goroutine accesses next, and how.
Access(p) ==
    CASE pc[p] = "SetLevel_level" -> [field |-> "level", kind |-> "write"]
      [] pc[p] = "SetOutput_level" -> [field |-> "level", kind |-> "read"]
      [] pc[p] = "Log_slogger" -> [field |-> "slogger", kind |-> "read"]
      [] pc[p] \in {"SetLevel_slogger", "SetOutput_slogger", "SetCustomHandler_slogger"} ->
             [field |-> "slogger", kind |-> "write"]
      [] OTHER -> [field |-> "none", kind |-> "none"]

\* Two goroutines are about to access the same field, one of them writing.
Race(p, q) ==
    /\ p # q
    /\ Access(p).field # "none"
    /\ Access(p).field = Access(q).field
    /\ "write" \in {Access(p).kind, Access(q).kind}

\* C10: nothing orders conflicting accesses of two goroutines to the level
\* field or to the formatter reference: whenever two such accesses are
\* pending, either may go first.
C10_NoSynchronisation ==
    \A p \in Procs, q \in Procs :
        Race(p, q) => ENABLED Step(p) /\ ENABLED Step(q)

\* SetLevel(ERROR) and SetOutput(buf) have both returned, and the active
\* formatter still lets INFO through, the threshold from before SetLevel.
C10_Witness ==
    \E p \in Procs, q \in Procs :
        /\ pc[p] = "idle" /\ pc[q] = "idle"
        /\ hist[p] = <<[op |-> "SetLevel", level |-> LevelError]>>
        /\ hist[q] = <<[op |-> "SetOutput", output |-> "buf"]>>
        /\ GetLevel(logger) = LevelError
        /\ Dest(logger.slogger) = "buf"
        /\ LevelInfo \in Emitted(logger.slogger)

----------------------------------------------------------------------------
(* The level field against the active formatter *)

\* The minimum severity the handler emits.
Threshold(h) ==
    CHOOSE level \in Emitted(h) : \A other \in Emitted(h) : level <= other

\* C11: in every state of a Logger, after New with any Options and any
\* sequence of SetLevel, SetOutput and SetCustomHandler, GetLevel() is the
\* minimum severity that the active formatter emits.
C11_GetLevelIsThreshold ==
    GetLevel(logger) = Threshold(logger.slogger)

----------------------------------------------------------------------------
(* New and the caller's Options object *)

\* The caller wrote neither a CustomHandler nor HandlerOptions into its
\* Options object.
CallerGaveNoHandler == {"CustomHandler", "HandlerOptions"} \subseteq unset

\* C12: New leaves the caller's Options object as it was, and the Logger it
\* returns filters at the Level the object holds at that call, whatever
\* earlier New calls were made with the same object.
C12_NewLeavesOptions ==
    [][\A output \in Writers :
          (New(output) /\ opts # NIL) =>
              /\ opts' = opts
              /\ CallerGaveNoHandler => Threshold(logger'.slogger) = opts.Level]_vars

\* The effect on a reused object alone: the Logger of a New call filters at
\* the Level the caller's object holds at that call.
ReusedOptionsFilterAtLevel ==
    [][\A output \in Writers :
          (New(output) /\ opts # NIL /\ CallerGaveNoHandler) =>
              Threshold(logger'.slogger) = opts.Level]_vars

====
